---- MODULE Spec2Model ----
(***************************************************************************)
(* NetworkManager: the membership registry of the XDC subnet.              *)
(*                                                                         *)
(* The repository holds two versions of the contract:                      *)
(*   - the Ownable version (reverse index memberIndex, owner()), and       *)
(*   - the manager version (linear scan, manager, memberCount,             *)
(*     transferManagerRole, updateSubnetMemberDetail).                     *)
(* A deployment runs one of them; `deployed` says which.  Every call is a  *)
(* transaction: it either runs to completion or reverts and leaves the     *)
(* storage as it was; `events` holds the logs of the last transaction's    *)
(* receipt (none when it reverted).                                        *)
(***************************************************************************)
EXTENDS Integers, Sequences, FiniteSets, TLC

\* ---------------------------------------------------------------- bounds
MaxAddress == 2        \* addresses are 0 .. MaxAddress, 0 being address(0)
MaxEvents  == 3        \* events emitted since deployment
MaxTime    == 2        \* block.timestamp ranges over 1 .. MaxTime
MaxSubmits == 2        \* submit events of the form

\* ------------------------------------------------------------- constants
ZERO == 0              \* address(0)
Deployer == 1          \* msg.sender of the constructor

Addresses == ZERO .. MaxAddress
Senders   == {1, 2}    \* accounts that send transactions

\* The values a caller supplies for the six detail fields of a member:
\* those a member is added with, and those it is updated to.
Node1 ==
  [x500Name |-> "CN=Node1, O=Org, L=City, C=US", publicKey |-> "0x1234",
   serial |-> 1001, platformVersion |-> 1,
   host |-> "node1.example.com", port |-> 30303]
NodeUpdated ==
  [x500Name |-> "CN=NodeUpdated, O=NewOrg, L=NewCity, C=US", publicKey |-> "0xfedc",
   serial |-> 2002, platformVersion |-> 2,
   host |-> "updated.example.com", port |-> 30304]
AddInputs    == {Node1}
MemberInputs == {Node1, NodeUpdated}

\* The four subnet fields alone (updateSubnetMemberDetail).
SubnetInputs ==
  { [serial |-> in.serial, platformVersion |-> in.platformVersion,
     host |-> in.host, port |-> in.port] : in \in MemberInputs }

VARIABLES
  deployed,         \* "Ownable" or "Manager": the version that is deployed
  owner,            \* Ownable version: Ownable._owner
  manager,          \* manager version: address public manager
  members,          \* mapping(address => NodeMember)
  memberIndex,      \* Ownable version: mapping(address => uint256)
  memberAddresses,  \* address[]
  memberCount,      \* manager version: uint256 public memberCount
  events,           \* the events the last transaction emitted, in order
  blockTimestamp,   \* block.timestamp of the current block
  eventCount,       \* number of events emitted since deployment
  call,             \* the last transaction sent: function and msg.sender
  result,           \* its outcome: "ok" or the revert reason
  script,           \* interact.js updateSubnetMemberDetail: its position and currentMember
  linear,           \* a second deployment, of the manager version, driven in lock step
  log,              \* an indexer's fold of the event log: each identity's latest
                    \* MemberAdded / MemberRemoved event
  form              \* the state of the AddMemberForm component

storage == <<owner, manager, members, memberIndex, memberAddresses, memberCount>>
\* What a transaction sent to the contract cannot touch.
aux == <<script, linear, log, form>>
vars == <<deployed, owner, manager, members, memberIndex, memberAddresses,
          memberCount, events, blockTimestamp, eventCount, call, result, script, linear,
          log, form>>

\* ---------------------------------------------------------- revert reasons
OwnableUnauthorizedAccount == "OwnableUnauthorizedAccount"
OwnableInvalidOwner        == "OwnableInvalidOwner"
OnlyManager                == "Only manager can call this function"
MemberDoesNotExist         == "Member does not exist"
MemberAlreadyExists        == "Member already exists"
InvalidManagerAddress      == "Invalid manager address"
ArrayPanic                 == "Panic"

\* ----------------------------------------------------------------- events
MemberAdded(memberAddress, x500Name) ==
  [name |-> "MemberAdded", memberAddress |-> memberAddress, x500Name |-> x500Name]
MemberRemoved(memberAddress) ==
  [name |-> "MemberRemoved", memberAddress |-> memberAddress]
MemberUpdated(memberAddress) ==
  [name |-> "MemberUpdated", memberAddress |-> memberAddress]
OwnershipTransferred(previousOwner, newOwner) ==
  [name |-> "OwnershipTransferred", previousOwner |-> previousOwner, newOwner |-> newOwner]
ManagerChanged(oldManager, newManager) ==
  [name |-> "ManagerChanged", oldManager |-> oldManager, newManager |-> newManager]

\* A transaction that reverts: the storage is rolled back, nothing is logged.
Revert(reason) ==
  /\ result' = reason
  /\ events' = <<>>
  /\ UNCHANGED <<storage, eventCount>>

\* A transaction that runs to completion and emits e.  It stands first among
\* the conjuncts of a step because it holds the step's guard, the bound on the
\* number of events.
Emit(e) ==
  /\ eventCount < MaxEvents
  /\ eventCount' = eventCount + 1
  /\ events' = <<e>>
  /\ result' = "ok"

Called(fn, sender) == call' = [fn |-> fn, sender |-> sender]

(***************************************************************************)
(* The Ownable version                                                     *)
(***************************************************************************)
\* The zero value of a NodeMember: what an unset or deleted mapping slot reads.
NodeMemberZero ==
  [x500Name |-> "", memberAddress |-> ZERO, publicKey |-> "", isActive |-> FALSE,
   joinedAt |-> 0, lastUpdated |-> 0, serial |-> 0, platformVersion |-> 0,
   host |-> "", port |-> 0]

\* Mutant: the modifier lets every sender through.
onlyOwner_anySender(sender) == TRUE

onlyOwner(sender) == owner = sender

memberExists(memberAddress) == members[memberAddress].memberAddress # ZERO

\* Mutant: the modifier never rejects.
memberDoesNotExist_always(memberAddress) == TRUE

memberDoesNotExist(memberAddress) == members[memberAddress].memberAddress = ZERO



\* Mutant: the new record's lastUpdated is left at its default.
newMember_lastUpdatedUnset(memberAddress, in) ==
  [x500Name |-> in.x500Name, memberAddress |-> memberAddress,
   publicKey |-> in.publicKey, isActive |-> TRUE,
   joinedAt |-> blockTimestamp, lastUpdated |-> 0,
   serial |-> in.serial, platformVersion |-> in.platformVersion,
   host |-> in.host, port |-> in.port]
\* Mutant: the new record takes isActive from what the slot holds.
newMember_keepsStatus(memberAddress, in) ==
  [x500Name |-> in.x500Name, memberAddress |-> memberAddress,
   publicKey |-> in.publicKey, isActive |-> members[memberAddress].isActive,
   joinedAt |-> blockTimestamp, lastUpdated |-> blockTimestamp,
   serial |-> in.serial, platformVersion |-> in.platformVersion,
   host |-> in.host, port |-> in.port]
\* NodeMember memory newMember = NodeMember({...})
newMember(memberAddress, in) ==
  [x500Name |-> in.x500Name, memberAddress |-> memberAddress,
   publicKey |-> in.publicKey, isActive |-> TRUE,
   joinedAt |-> blockTimestamp, lastUpdated |-> blockTimestamp,
   serial |-> in.serial, platformVersion |-> in.platformVersion,
   host |-> in.host, port |-> in.port]


\* Mutant: the existence guard is evaluated before the authorization.
addMember_existenceFirst(sender, memberAddress, in) ==
  /\ deployed = "Ownable"
  /\ Called("addMember", sender)
  /\ UNCHANGED <<deployed, blockTimestamp>>
  /\ IF ~memberDoesNotExist(memberAddress) THEN Revert(MemberAlreadyExists)
     ELSE IF ~onlyOwner(sender) THEN Revert(OwnableUnauthorizedAccount)
     ELSE /\ Emit(MemberAdded(memberAddress, in.x500Name))
          /\ members' = [members EXCEPT ![memberAddress] = newMember(memberAddress, in)]
          /\ memberIndex' = [memberIndex EXCEPT ![memberAddress] = Len(memberAddresses)]
          /\ memberAddresses' = Append(memberAddresses, memberAddress)
          /\ UNCHANGED <<owner, manager, memberCount>>

\* Mutant: the new identity is inserted at the head of the list.
addMember_pushFront(sender, memberAddress, in) ==
  /\ deployed = "Ownable"
  /\ Called("addMember", sender)
  /\ UNCHANGED <<deployed, blockTimestamp>>
  /\ IF ~onlyOwner(sender) THEN Revert(OwnableUnauthorizedAccount)
     ELSE IF ~memberDoesNotExist(memberAddress) THEN Revert(MemberAlreadyExists)
     ELSE /\ Emit(MemberAdded(memberAddress, in.x500Name))
          /\ members' = [members EXCEPT ![memberAddress] = newMember(memberAddress, in)]
          /\ memberIndex' = [memberIndex EXCEPT ![memberAddress] = Len(memberAddresses)]
          /\ memberAddresses' = <<memberAddress>> \o memberAddresses
          /\ UNCHANGED <<owner, manager, memberCount>>
addMember(sender, memberAddress, in) ==
  /\ deployed = "Ownable"
  /\ Called("addMember", sender)
  /\ UNCHANGED <<deployed, blockTimestamp>>
  /\ IF ~onlyOwner(sender) THEN Revert(OwnableUnauthorizedAccount)
     ELSE IF ~memberDoesNotExist(memberAddress) THEN Revert(MemberAlreadyExists)
     ELSE /\ Emit(MemberAdded(memberAddress, in.x500Name))
          /\ members' = [members EXCEPT ![memberAddress] = newMember(memberAddress, in)]
          /\ memberIndex' = [memberIndex EXCEPT ![memberAddress] = Len(memberAddresses)]
          /\ memberAddresses' = Append(memberAddresses, memberAddress)
          /\ UNCHANGED <<owner, manager, memberCount>>

\* Mutant: pop() without moving the last member into the freed slot.
swapAndPop_popOnly(list, index) == SubSeq(list, 1, Len(list) - 1)

\* memberAddresses[index] = lastMember; memberAddresses.pop();
\* (array slots are numbered from 0, sequence positions from 1)
swapAndPop(list, index) ==
  SubSeq([list EXCEPT ![index + 1] = list[Len(list)]], 1, Len(list) - 1)


\* Mutant: the reverse-index entry of the removed identity is never deleted.
indexAfterRemove_noDelete(memberAddress, index, lastMember) ==
  [memberIndex EXCEPT ![lastMember] = index]
\* Mutant: the delete comes before the write of memberIndex[lastMember].
indexAfterRemove_deleteFirst(memberAddress, index, lastMember) ==
  [[memberIndex EXCEPT ![memberAddress] = 0] EXCEPT ![lastMember] = index]

\* memberIndex[lastMember] = index; delete memberIndex[memberAddress];
indexAfterRemove(memberAddress, index, lastMember) ==
  [[memberIndex EXCEPT ![lastMember] = index] EXCEPT ![memberAddress] = 0]


\* Mutant: the record deleted is the one of the member moved into the slot.
removeMember_deletesLast(sender, memberAddress) ==
  /\ deployed = "Ownable"
  /\ Called("removeMember", sender)
  /\ UNCHANGED <<deployed, blockTimestamp>>
  /\ IF ~onlyOwner(sender) THEN Revert(OwnableUnauthorizedAccount)
     ELSE IF ~memberExists(memberAddress) THEN Revert(MemberDoesNotExist)
     ELSE IF Len(memberAddresses) = 0 \/ memberIndex[memberAddress] >= Len(memberAddresses)
       THEN Revert(ArrayPanic)
     ELSE LET index == memberIndex[memberAddress]
              lastMember == memberAddresses[Len(memberAddresses)]
          IN /\ Emit(MemberRemoved(memberAddress))
             /\ memberAddresses' = swapAndPop(memberAddresses, index)
             /\ memberIndex' = indexAfterRemove(memberAddress, index, lastMember)
             /\ members' = [members EXCEPT ![lastMember] = NodeMemberZero]
             /\ UNCHANGED <<owner, manager, memberCount>>
removeMember(sender, memberAddress) ==
  /\ deployed = "Ownable"
  /\ Called("removeMember", sender)
  /\ UNCHANGED <<deployed, blockTimestamp>>
  /\ IF ~onlyOwner(sender) THEN Revert(OwnableUnauthorizedAccount)
     ELSE IF ~memberExists(memberAddress) THEN Revert(MemberDoesNotExist)
     ELSE IF Len(memberAddresses) = 0 \/ memberIndex[memberAddress] >= Len(memberAddresses)
       THEN Revert(ArrayPanic)
     ELSE LET index == memberIndex[memberAddress]
              lastMember == memberAddresses[Len(memberAddresses)]
          IN /\ Emit(MemberRemoved(memberAddress))
             /\ memberAddresses' = swapAndPop(memberAddresses, index)
             /\ memberIndex' = indexAfterRemove(memberAddress, index, lastMember)
             /\ members' = [members EXCEPT ![memberAddress] = NodeMemberZero]
             /\ UNCHANGED <<owner, manager, memberCount>>





\* Mutant: updateMemberStatus without the memberExists modifier.
updateMemberStatus_noExistenceGuard(sender, memberAddress, isActive) ==
  /\ deployed = "Ownable"
  /\ Called("updateMemberStatus", sender)
  /\ UNCHANGED <<deployed, blockTimestamp>>
  /\ IF ~onlyOwner(sender) THEN Revert(OwnableUnauthorizedAccount)
     ELSE /\ Emit(MemberUpdated(memberAddress))
          /\ members' = [members EXCEPT ![memberAddress].isActive = isActive,
                                        ![memberAddress].lastUpdated = blockTimestamp]
          /\ UNCHANGED <<owner, manager, memberIndex, memberAddresses, memberCount>>
\* Mutant: deactivation implemented as deletion of the record.
updateMemberStatus_deletesInactive(sender, memberAddress, isActive) ==
  /\ deployed = "Ownable"
  /\ Called("updateMemberStatus", sender)
  /\ UNCHANGED <<deployed, blockTimestamp>>
  /\ IF ~onlyOwner(sender) THEN Revert(OwnableUnauthorizedAccount)
     ELSE IF ~memberExists(memberAddress) THEN Revert(MemberDoesNotExist)
     ELSE /\ Emit(MemberUpdated(memberAddress))
          /\ members' = [members EXCEPT ![memberAddress] =
                           IF isActive
                           THEN [@ EXCEPT !.isActive = TRUE, !.lastUpdated = blockTimestamp]
                           ELSE NodeMemberZero]
          /\ UNCHANGED <<owner, manager, memberIndex, memberAddresses, memberCount>>
\* Mutant: updateMemberStatus without members[memberAddress].lastUpdated = block.timestamp.
updateMemberStatus_keepsLastUpdated(sender, memberAddress, isActive) ==
  /\ deployed = "Ownable"
  /\ Called("updateMemberStatus", sender)
  /\ UNCHANGED <<deployed, blockTimestamp>>
  /\ IF ~onlyOwner(sender) THEN Revert(OwnableUnauthorizedAccount)
     ELSE IF ~memberExists(memberAddress) THEN Revert(MemberDoesNotExist)
     ELSE /\ Emit(MemberUpdated(memberAddress))
          /\ members' = [members EXCEPT ![memberAddress].isActive = isActive]
          /\ UNCHANGED <<owner, manager, memberIndex, memberAddresses, memberCount>>
\* Mutant: updateMemberStatus returns early when the status is already the one asked for.
updateMemberStatus_skipsSameValue(sender, memberAddress, isActive) ==
  /\ deployed = "Ownable"
  /\ Called("updateMemberStatus", sender)
  /\ UNCHANGED <<deployed, blockTimestamp>>
  /\ IF ~onlyOwner(sender) THEN Revert(OwnableUnauthorizedAccount)
     ELSE IF ~memberExists(memberAddress) THEN Revert(MemberDoesNotExist)
     ELSE IF members[memberAddress].isActive = isActive
       THEN /\ result' = "ok"
            /\ events' = <<>>
            /\ UNCHANGED <<storage, eventCount>>
     ELSE /\ Emit(MemberUpdated(memberAddress))
          /\ members' = [members EXCEPT ![memberAddress].isActive = isActive,
                                        ![memberAddress].lastUpdated = blockTimestamp]
          /\ UNCHANGED <<owner, manager, memberIndex, memberAddresses, memberCount>>
\* Mutant: updateMemberStatus without its emit.
updateMemberStatus_noEmit(sender, memberAddress, isActive) ==
  /\ deployed = "Ownable"
  /\ Called("updateMemberStatus", sender)
  /\ UNCHANGED <<deployed, blockTimestamp>>
  /\ IF ~onlyOwner(sender) THEN Revert(OwnableUnauthorizedAccount)
     ELSE IF ~memberExists(memberAddress) THEN Revert(MemberDoesNotExist)
     ELSE /\ members' = [members EXCEPT ![memberAddress].isActive = isActive,
                                        ![memberAddress].lastUpdated = blockTimestamp]
          /\ result' = "ok"
          /\ events' = <<>>
          /\ UNCHANGED <<owner, manager, memberIndex, memberAddresses, memberCount, eventCount>>

updateMemberStatus(sender, memberAddress, isActive) ==
  /\ deployed = "Ownable"
  /\ Called("updateMemberStatus", sender)
  /\ UNCHANGED <<deployed, blockTimestamp>>
  /\ IF ~onlyOwner(sender) THEN Revert(OwnableUnauthorizedAccount)
     ELSE IF ~memberExists(memberAddress) THEN Revert(MemberDoesNotExist)
     ELSE /\ Emit(MemberUpdated(memberAddress))
          /\ members' = [members EXCEPT ![memberAddress].isActive = isActive,
                                        ![memberAddress].lastUpdated = blockTimestamp]
          /\ UNCHANGED <<owner, manager, memberIndex, memberAddresses, memberCount>>


\* Mutant: the update also rewrites joinedAt.
detailsUpdated_resetsJoinedAt(member, in) ==
  [member EXCEPT !.x500Name = in.x500Name, !.publicKey = in.publicKey,
                 !.serial = in.serial, !.platformVersion = in.platformVersion,
                 !.host = in.host, !.port = in.port,
                 !.joinedAt = blockTimestamp, !.lastUpdated = blockTimestamp]
\* member.x500Name = x500Name; ... member.lastUpdated = block.timestamp;
detailsUpdated(member, in) ==
  [member EXCEPT !.x500Name = in.x500Name, !.publicKey = in.publicKey,
                 !.serial = in.serial, !.platformVersion = in.platformVersion,
                 !.host = in.host, !.port = in.port,
                 !.lastUpdated = blockTimestamp]


\* Mutant: the update stores a whole new record, as addMember does.
updateMemberDetails_asNewMember(sender, memberAddress, in) ==
  /\ deployed = "Ownable"
  /\ Called("updateMemberDetails", sender)
  /\ UNCHANGED <<deployed, blockTimestamp>>
  /\ IF ~onlyOwner(sender) THEN Revert(OwnableUnauthorizedAccount)
     ELSE IF ~memberExists(memberAddress) THEN Revert(MemberDoesNotExist)
     ELSE /\ Emit(MemberUpdated(memberAddress))
          /\ members' = [members EXCEPT ![memberAddress] = newMember(memberAddress, in)]
          /\ UNCHANGED <<owner, manager, memberIndex, memberAddresses, memberCount>>
updateMemberDetails(sender, memberAddress, in) ==
  /\ deployed = "Ownable"
  /\ Called("updateMemberDetails", sender)
  /\ UNCHANGED <<deployed, blockTimestamp>>
  /\ IF ~onlyOwner(sender) THEN Revert(OwnableUnauthorizedAccount)
     ELSE IF ~memberExists(memberAddress) THEN Revert(MemberDoesNotExist)
     ELSE /\ Emit(MemberUpdated(memberAddress))
          /\ members' = [members EXCEPT ![memberAddress] = detailsUpdated(@, in)]
          /\ UNCHANGED <<owner, manager, memberIndex, memberAddresses, memberCount>>

getMember(memberAddress) ==
  IF ~memberExists(memberAddress) THEN [result |-> MemberDoesNotExist]
  ELSE [result |-> "ok", member |-> members[memberAddress]]

getAllMembers == memberAddresses

isMember(memberAddress) == members[memberAddress].memberAddress # ZERO

\* Ownable.transferOwnership, inherited; the interaction script's
\* transferManager command calls it.
transferOwnership(sender, newOwner) ==
  /\ deployed = "Ownable"
  /\ Called("transferOwnership", sender)
  /\ UNCHANGED <<deployed, blockTimestamp>>
  /\ IF ~onlyOwner(sender) THEN Revert(OwnableUnauthorizedAccount)
     ELSE IF newOwner = ZERO THEN Revert(OwnableInvalidOwner)
     ELSE /\ Emit(OwnershipTransferred(owner, newOwner))
          /\ owner' = newOwner
          /\ UNCHANGED <<manager, members, memberIndex, memberAddresses, memberCount>>

\* Ownable.renounceOwnership, inherited.
renounceOwnership(sender) ==
  /\ deployed = "Ownable"
  /\ Called("renounceOwnership", sender)
  /\ UNCHANGED <<deployed, blockTimestamp>>
  /\ IF ~onlyOwner(sender) THEN Revert(OwnableUnauthorizedAccount)
     ELSE /\ Emit(OwnershipTransferred(owner, ZERO))
          /\ owner' = ZERO
          /\ UNCHANGED <<manager, members, memberIndex, memberAddresses, memberCount>>

(***************************************************************************)
(* The manager version                                                     *)
(***************************************************************************)
NodeMemberZero_mgr ==
  [x500Name |-> "", nodeAddress |-> ZERO, publicKey |-> "", isActive |-> FALSE,
   joinedAt |-> 0, lastUpdated |-> 0, serial |-> 0, platformVersion |-> 0,
   host |-> "", port |-> 0]

\* Mutant: the modifier compares with the deployer, not the current manager.
onlyManager_deployer(sender) == sender = Deployer

onlyManager(sender) == sender = manager

\* Mutant: the modifier never rejects.
memberExists_mgr_always(memberAddress) == TRUE

memberExists_mgr(memberAddress) == members[memberAddress].nodeAddress # ZERO

memberDoesNotExist_mgr(memberAddress) == members[memberAddress].nodeAddress = ZERO

newMember_mgr(memberAddress, in) ==
  [x500Name |-> in.x500Name, nodeAddress |-> memberAddress,
   publicKey |-> in.publicKey, isActive |-> TRUE,
   joinedAt |-> blockTimestamp, lastUpdated |-> blockTimestamp,
   serial |-> in.serial, platformVersion |-> in.platformVersion,
   host |-> in.host, port |-> in.port]


\* Mutant: the new identity is not pushed to memberAddresses.
addMember_mgr_noPush(sender, memberAddress, in) ==
  /\ deployed = "Manager"
  /\ Called("addMember", sender)
  /\ UNCHANGED <<deployed, blockTimestamp>>
  /\ IF ~onlyManager(sender) THEN Revert(OnlyManager)
     ELSE IF ~memberDoesNotExist_mgr(memberAddress) THEN Revert(MemberAlreadyExists)
     ELSE /\ Emit(MemberAdded(memberAddress, in.x500Name))
          /\ members' = [members EXCEPT ![memberAddress] = newMember_mgr(memberAddress, in)]
          /\ memberCount' = memberCount + 1
          /\ UNCHANGED <<owner, manager, memberIndex, memberAddresses>>
addMember_mgr(sender, memberAddress, in) ==
  /\ deployed = "Manager"
  /\ Called("addMember", sender)
  /\ UNCHANGED <<deployed, blockTimestamp>>
  /\ IF ~onlyManager(sender) THEN Revert(OnlyManager)
     ELSE IF ~memberDoesNotExist_mgr(memberAddress) THEN Revert(MemberAlreadyExists)
     ELSE /\ Emit(MemberAdded(memberAddress, in.x500Name))
          /\ members' = [members EXCEPT ![memberAddress] = newMember_mgr(memberAddress, in)]
          /\ memberAddresses' = Append(memberAddresses, memberAddress)
          /\ memberCount' = memberCount + 1
          /\ UNCHANGED <<owner, manager, memberIndex>>

\* for (uint256 i = 0; i < memberAddresses.length; i++) { if (... == memberAddress) ... break; }
RECURSIVE scan(_, _, _)
scan(list, memberAddress, i) ==
  IF i >= Len(list) THEN [found |-> FALSE, index |-> 0]
  ELSE IF list[i + 1] = memberAddress THEN [found |-> TRUE, index |-> i]
  ELSE scan(list, memberAddress, i + 1)

removeMember_mgr(sender, memberAddress) ==
  /\ deployed = "Manager"
  /\ Called("removeMember", sender)
  /\ UNCHANGED <<deployed, blockTimestamp>>
  /\ IF ~onlyManager(sender) THEN Revert(OnlyManager)
     ELSE IF ~memberExists_mgr(memberAddress) THEN Revert(MemberDoesNotExist)
     ELSE LET s == scan(memberAddresses, memberAddress, 0)
          IN IF ~s.found
               THEN \* returns without effect
                    /\ result' = "ok"
                    /\ events' = <<>>
                    /\ UNCHANGED <<storage, eventCount>>
             ELSE IF memberCount = 0 THEN Revert(ArrayPanic)
             ELSE /\ Emit(MemberRemoved(memberAddress))
                  /\ memberAddresses' = swapAndPop(memberAddresses, s.index)
                  /\ members' = [members EXCEPT ![memberAddress] = NodeMemberZero_mgr]
                  /\ memberCount' = memberCount - 1
                  /\ UNCHANGED <<owner, manager, memberIndex>>

updateMemberStatus_mgr(sender, memberAddress, isActive) ==
  /\ deployed = "Manager"
  /\ Called("updateMemberStatus", sender)
  /\ UNCHANGED <<deployed, blockTimestamp>>
  /\ IF ~onlyManager(sender) THEN Revert(OnlyManager)
     ELSE IF ~memberExists_mgr(memberAddress) THEN Revert(MemberDoesNotExist)
     ELSE /\ Emit(MemberUpdated(memberAddress))
          /\ members' = [members EXCEPT ![memberAddress].isActive = isActive,
                                        ![memberAddress].lastUpdated = blockTimestamp]
          /\ UNCHANGED <<owner, manager, memberIndex, memberAddresses, memberCount>>

updateMemberDetails_mgr(sender, memberAddress, in) ==
  /\ deployed = "Manager"
  /\ Called("updateMemberDetails", sender)
  /\ UNCHANGED <<deployed, blockTimestamp>>
  /\ IF ~onlyManager(sender) THEN Revert(OnlyManager)
     ELSE IF ~memberExists_mgr(memberAddress) THEN Revert(MemberDoesNotExist)
     ELSE /\ Emit(MemberUpdated(memberAddress))
          /\ members' = [members EXCEPT ![memberAddress] = detailsUpdated(@, in)]
          /\ UNCHANGED <<owner, manager, memberIndex, memberAddresses, memberCount>>



\* Mutant: transferManagerRole without the onlyManager modifier.
transferManagerRole_anySender(sender, newManager) ==
  /\ deployed = "Manager"
  /\ Called("transferManagerRole", sender)
  /\ UNCHANGED <<deployed, blockTimestamp>>
  /\ IF newManager = ZERO THEN Revert(InvalidManagerAddress)
     ELSE /\ Emit(ManagerChanged(manager, newManager))
          /\ manager' = newManager
          /\ UNCHANGED <<owner, members, memberIndex, memberAddresses, memberCount>>
\* Mutant: transferManagerRole without require(newManager != address(0)).
transferManagerRole_noZeroCheck(sender, newManager) ==
  /\ deployed = "Manager"
  /\ Called("transferManagerRole", sender)
  /\ UNCHANGED <<deployed, blockTimestamp>>
  /\ IF ~onlyManager(sender) THEN Revert(OnlyManager)
     ELSE /\ Emit(ManagerChanged(manager, newManager))
          /\ manager' = newManager
          /\ UNCHANGED <<owner, members, memberIndex, memberAddresses, memberCount>>
transferManagerRole(sender, newManager) ==
  /\ deployed = "Manager"
  /\ Called("transferManagerRole", sender)
  /\ UNCHANGED <<deployed, blockTimestamp>>
  /\ IF ~onlyManager(sender) THEN Revert(OnlyManager)
     ELSE IF newManager = ZERO THEN Revert(InvalidManagerAddress)
     ELSE /\ Emit(ManagerChanged(manager, newManager))
          /\ manager' = newManager
          /\ UNCHANGED <<owner, members, memberIndex, memberAddresses, memberCount>>


\* Mutant: the subnet update also clears the name and the key.
subnetDetailUpdated_clearsNameAndKey(member, in) ==
  [member EXCEPT !.x500Name = "", !.publicKey = "",
                 !.serial = in.serial, !.platformVersion = in.platformVersion,
                 !.host = in.host, !.port = in.port,
                 !.lastUpdated = blockTimestamp]
\* members[memberAddress].serial = serial; ... .lastUpdated = block.timestamp;
subnetDetailUpdated(member, in) ==
  [member EXCEPT !.serial = in.serial, !.platformVersion = in.platformVersion,
                 !.host = in.host, !.port = in.port,
                 !.lastUpdated = blockTimestamp]

updateSubnetMemberDetail(sender, memberAddress, in) ==
  /\ deployed = "Manager"
  /\ Called("updateSubnetMemberDetail", sender)
  /\ UNCHANGED <<deployed, blockTimestamp>>
  /\ IF ~onlyManager(sender) THEN Revert(OnlyManager)
     ELSE IF ~memberExists_mgr(memberAddress) THEN Revert(MemberDoesNotExist)
     ELSE /\ Emit(MemberUpdated(memberAddress))
          /\ members' = [members EXCEPT ![memberAddress] = subnetDetailUpdated(@, in)]
          /\ UNCHANGED <<owner, manager, memberIndex, memberAddresses, memberCount>>

getMember_mgr(memberAddress) ==
  IF ~memberExists_mgr(memberAddress) THEN [result |-> MemberDoesNotExist]
  ELSE [result |-> "ok", member |-> members[memberAddress]]

getAllMembers_mgr == memberAddresses

isMember_mgr(memberAddress) == members[memberAddress].nodeAddress # ZERO

(***************************************************************************)
(* The chain                                                               *)
(***************************************************************************)
\* The next block is mined: block.timestamp grows.
NextBlock ==
  /\ blockTimestamp < MaxTime
  /\ blockTimestamp' = blockTimestamp + 1
  /\ UNCHANGED <<deployed, storage, events, eventCount, call, result>>


\* The interaction script before its updateSubnetMemberDetail command has read
\* anything.
scriptIdle == [pc |-> "idle", subnetAddress |-> ZERO, x500Name |-> "", publicKey |-> ""]

\* The storage of the manager version right after its constructor.
linearDeployed ==
  [manager |-> Deployer, members |-> [a \in Addresses |-> NodeMemberZero_mgr],
   memberAddresses |-> <<>>, memberCount |-> 0, result |-> "ok"]

\* Mutant: a constructor that does not pass msg.sender to Ownable / set manager.
Deployed_noAuthority(version) ==
  /\ deployed = version
  /\ owner = ZERO
  /\ manager = ZERO
  /\ members = [a \in Addresses |->
                  IF version = "Ownable" THEN NodeMemberZero ELSE NodeMemberZero_mgr]
  /\ memberIndex = [a \in Addresses |-> 0]
  /\ memberAddresses = <<>>
  /\ memberCount = 0
  /\ events = <<>>
  /\ eventCount = 0
  /\ blockTimestamp = 1
  /\ call = [fn |-> "constructor", sender |-> Deployer]
  /\ result = "ok"
\* The state right after the constructor of the deployed version has run.
Deployed(version) ==
  /\ deployed = version
  /\ owner = IF version = "Ownable" THEN Deployer ELSE ZERO
  /\ manager = IF version = "Manager" THEN Deployer ELSE ZERO
  /\ members = [a \in Addresses |->
                  IF version = "Ownable" THEN NodeMemberZero ELSE NodeMemberZero_mgr]
  /\ memberIndex = [a \in Addresses |-> 0]
  /\ memberAddresses = <<>>
  /\ memberCount = 0
  /\ events = <<>>
  /\ eventCount = 0
  /\ blockTimestamp = 1
  /\ call = [fn |-> "constructor", sender |-> Deployer]
  /\ result = "ok"

\* One deployment, the script not started.
noSecondDeployment == <<>>
\* No indexer follows the events, no form is mounted.
noIndexer == <<>>
noForm == <<>>
Alone ==
  /\ script = scriptIdle /\ linear = noSecondDeployment
  /\ log = noIndexer /\ form = noForm

Init == (Deployed("Ownable") \/ Deployed("Manager")) /\ Alone
InitOwnable == Deployed("Ownable") /\ Alone
InitManager == Deployed("Manager") /\ Alone
\* The Ownable version and, beside it, the manager version, both just deployed
\* by the same account.
InitBoth ==
  /\ Deployed("Ownable") /\ script = scriptIdle /\ linear = linearDeployed
  /\ log = noIndexer /\ form = noForm



\* Mutant: getMember restricted to the owner.
callGetMember_onlyOwner(sender, memberAddress) ==
  /\ deployed = "Ownable"
  /\ Called("getMember", sender)
  /\ result' = IF ~onlyOwner(sender) THEN OwnableUnauthorizedAccount
               ELSE getMember(memberAddress).result
  /\ events' = <<>>
  /\ UNCHANGED <<deployed, blockTimestamp, storage, eventCount>>
\* External calls of the view functions of the Ownable version.  A view function
\* cannot write storage or emit; no modifier looks at msg.sender.
callGetMember(sender, memberAddress) ==
  /\ deployed = "Ownable"
  /\ Called("getMember", sender)
  /\ result' = getMember(memberAddress).result
  /\ events' = <<>>
  /\ UNCHANGED <<deployed, blockTimestamp, storage, eventCount>>

callGetAllMembers(sender) ==
  /\ deployed = "Ownable"
  /\ Called("getAllMembers", sender)
  /\ result' = "ok"
  /\ events' = <<>>
  /\ UNCHANGED <<deployed, blockTimestamp, storage, eventCount>>

callIsMember(sender, memberAddress) ==
  /\ deployed = "Ownable"
  /\ Called("isMember", sender)
  /\ result' = "ok"
  /\ events' = <<>>
  /\ UNCHANGED <<deployed, blockTimestamp, storage, eventCount>>

ViewsOwnable ==
  \/ \E s \in Senders, a \in Addresses : callGetMember(s, a) /\ UNCHANGED aux
  \/ \E s \in Senders : callGetAllMembers(s) /\ UNCHANGED aux
  \/ \E s \in Senders, a \in Addresses : callIsMember(s, a) /\ UNCHANGED aux

\* External calls of the view functions of the manager version.
callGetMember_mgr(sender, memberAddress) ==
  /\ deployed = "Manager"
  /\ Called("getMember", sender)
  /\ result' = getMember_mgr(memberAddress).result
  /\ events' = <<>>
  /\ UNCHANGED <<deployed, blockTimestamp, storage, eventCount>>

callGetAllMembers_mgr(sender) ==
  /\ deployed = "Manager"
  /\ Called("getAllMembers", sender)
  /\ result' = "ok"
  /\ events' = <<>>
  /\ UNCHANGED <<deployed, blockTimestamp, storage, eventCount>>

callIsMember_mgr(sender, memberAddress) ==
  /\ deployed = "Manager"
  /\ Called("isMember", sender)
  /\ result' = "ok"
  /\ events' = <<>>
  /\ UNCHANGED <<deployed, blockTimestamp, storage, eventCount>>

ViewsManager ==
  \/ \E s \in Senders, a \in Addresses : callGetMember_mgr(s, a) /\ UNCHANGED aux
  \/ \E s \in Senders : callGetAllMembers_mgr(s) /\ UNCHANGED aux
  \/ \E s \in Senders, a \in Addresses : callIsMember_mgr(s, a) /\ UNCHANGED aux

\* The interaction script's updateSubnetMemberDetail command, which runs
\* against the Ownable version: first it reads the record with getMember (a
\* revert of the read ends the script) and keeps it in currentMember ...
scriptRead(subnetAddress) ==
  /\ deployed = "Ownable"
  /\ script.pc = "idle"
  /\ getMember(subnetAddress).result = "ok"
  /\ script' = [pc |-> "read", subnetAddress |-> subnetAddress,
                x500Name |-> getMember(subnetAddress).member.x500Name,
                publicKey |-> getMember(subnetAddress).member.publicKey]
  /\ UNCHANGED <<deployed, blockTimestamp, storage, events, eventCount, call, result>>

\* ... then, in a transaction of its own, it sends updateMemberDetails with the
\* name and the key it read and the four subnet fields of its arguments.
scriptWrite(sender, in) ==
  /\ script.pc = "read"
  /\ updateMemberDetails(sender, script.subnetAddress,
        [x500Name |-> script.x500Name, publicKey |-> script.publicKey,
         serial |-> in.serial, platformVersion |-> in.platformVersion,
         host |-> in.host, port |-> in.port])
  /\ script' = scriptIdle

ScriptSteps ==
  \/ \E a \in Addresses : scriptRead(a) /\ UNCHANGED <<linear, log, form>>
  \/ \E s \in Senders, in \in SubnetInputs : scriptWrite(s, in) /\ UNCHANGED <<linear, log, form>>

\* A second deployment, of the manager version, on the same chain: its
\* storage is the record `linear`, and each function below is the function of
\* part_003 as a map from the storage before the call to the storage after
\* it, `result` holding the call's outcome.  A revert leaves the storage as
\* it was.
addMember_linear(st, sender, memberAddress, in) ==
  IF sender # st.manager THEN [st EXCEPT !.result = OnlyManager]
  ELSE IF st.members[memberAddress].nodeAddress # ZERO
    THEN [st EXCEPT !.result = MemberAlreadyExists]
  ELSE [st EXCEPT !.members[memberAddress] = newMember_mgr(memberAddress, in),
                  !.memberAddresses = Append(@, memberAddress),
                  !.memberCount = @ + 1,
                  !.result = "ok"]

\* Mutant: the found slot is not overwritten by the last member before pop().
removeMember_linear_popOnly(st, sender, memberAddress) ==
  IF sender # st.manager THEN [st EXCEPT !.result = OnlyManager]
  ELSE IF st.members[memberAddress].nodeAddress = ZERO
    THEN [st EXCEPT !.result = MemberDoesNotExist]
  ELSE [st EXCEPT !.memberAddresses = SubSeq(@, 1, Len(@) - 1),
                  !.members[memberAddress] = NodeMemberZero_mgr,
                  !.memberCount = @ - 1,
                  !.result = "ok"]

removeMember_linear(st, sender, memberAddress) ==
  IF sender # st.manager THEN [st EXCEPT !.result = OnlyManager]
  ELSE IF st.members[memberAddress].nodeAddress = ZERO
    THEN [st EXCEPT !.result = MemberDoesNotExist]
  ELSE LET s == scan(st.memberAddresses, memberAddress, 0)
       IN IF ~s.found THEN [st EXCEPT !.result = "ok"]
          ELSE IF st.memberCount = 0 THEN [st EXCEPT !.result = ArrayPanic]
          ELSE [st EXCEPT !.memberAddresses = swapAndPop(@, s.index),
                          !.members[memberAddress] = NodeMemberZero_mgr,
                          !.memberCount = @ - 1,
                          !.result = "ok"]

updateMemberStatus_linear(st, sender, memberAddress, isActive) ==
  IF sender # st.manager THEN [st EXCEPT !.result = OnlyManager]
  ELSE IF st.members[memberAddress].nodeAddress = ZERO
    THEN [st EXCEPT !.result = MemberDoesNotExist]
  ELSE [st EXCEPT !.members[memberAddress].isActive = isActive,
                  !.members[memberAddress].lastUpdated = blockTimestamp,
                  !.result = "ok"]

updateMemberDetails_linear(st, sender, memberAddress, in) ==
  IF sender # st.manager THEN [st EXCEPT !.result = OnlyManager]
  ELSE IF st.members[memberAddress].nodeAddress = ZERO
    THEN [st EXCEPT !.result = MemberDoesNotExist]
  ELSE [st EXCEPT !.members[memberAddress] = detailsUpdated(@, in),
                  !.result = "ok"]

\* The same call, from the same sender, in the same block, sent to the Ownable
\* deployment and to the manager-version deployment.
bothAddMember(sender, memberAddress, in) ==
  /\ addMember(sender, memberAddress, in)
  /\ linear' = addMember_linear(linear, sender, memberAddress, in)

bothRemoveMember(sender, memberAddress) ==
  /\ removeMember(sender, memberAddress)
  /\ linear' = removeMember_linear(linear, sender, memberAddress)

bothUpdateMemberStatus(sender, memberAddress, isActive) ==
  /\ updateMemberStatus(sender, memberAddress, isActive)
  /\ linear' = updateMemberStatus_linear(linear, sender, memberAddress, isActive)

bothUpdateMemberDetails(sender, memberAddress, in) ==
  /\ updateMemberDetails(sender, memberAddress, in)
  /\ linear' = updateMemberDetails_linear(linear, sender, memberAddress, in)

NextBoth ==
  \/ \E s \in Senders, a \in Addresses, in \in AddInputs :
        bothAddMember(s, a, in) /\ UNCHANGED <<script, log, form>>
  \/ \E s \in Senders, a \in Addresses :
        bothRemoveMember(s, a) /\ UNCHANGED <<script, log, form>>
  \/ \E s \in Senders, a \in Addresses, b \in BOOLEAN :
        bothUpdateMemberStatus(s, a, b) /\ UNCHANGED <<script, log, form>>
  \/ \E s \in Senders, a \in Addresses, in \in MemberInputs :
        bothUpdateMemberDetails(s, a, in) /\ UNCHANGED <<script, log, form>>
  \/ NextBlock /\ UNCHANGED aux

\* The event log of the Ownable deployment as an indexer reads it: of each
\* identity it keeps the latest MemberAdded / MemberRemoved event.  A reverted
\* transaction logs nothing; MemberUpdated and OwnershipTransferred are not
\* membership events.
Indexed(seen, receipt) ==
  IF receipt # <<>> /\ receipt[1].name \in {"MemberAdded", "MemberRemoved"}
    THEN [seen EXCEPT ![receipt[1].memberAddress] = receipt[1].name]
    ELSE seen

Logged == log' = Indexed(log, events') /\ UNCHANGED <<script, linear, form>>

NextLogged ==
  \/ \E s \in Senders, a \in Addresses, in \in AddInputs : addMember(s, a, in) /\ Logged
  \/ \E s \in Senders, a \in Addresses : removeMember(s, a) /\ Logged
  \/ \E s \in Senders, a \in Addresses, b \in BOOLEAN : updateMemberStatus(s, a, b) /\ Logged
  \/ \E s \in Senders, a \in Addresses, in \in MemberInputs : updateMemberDetails(s, a, in) /\ Logged
  \/ \E s \in Senders, a \in Senders \cup {ZERO} : transferOwnership(s, a) /\ Logged
  \/ \E s \in Senders : renounceOwnership(s) /\ Logged
  \/ NextBlock /\ UNCHANGED aux

\* The Ownable version just deployed, its event log empty.
InitLogged ==
  /\ Deployed("Ownable") /\ script = scriptIdle /\ linear = noSecondDeployment
  /\ log = [a \in Addresses |-> "none"] /\ form = noForm

(***************************************************************************)
(* The AddMemberForm component                                             *)
(***************************************************************************)
FieldNames == {"address", "x500Name", "certSerialHex", "platformVersion", "host", "port"}

\* useState<FormState>({...}): every field empty.
formInitial ==
  [address |-> "", x500Name |-> "", certSerialHex |-> "", platformVersion |-> "",
   host |-> "", port |-> ""]

\* The values setFormData stores after a successful add.
formReset ==
  [address |-> "", x500Name |-> "", certSerialHex |-> "0x1732382838913",
   platformVersion |-> "12", host |-> "contour.p2p.app.contournetwork.io",
   port |-> "10030"]

\* What the user types into a field: nothing, or a value of the kind its
\* placeholder shows; for the address also one the pattern rejects.
Typed(name) ==
  CASE name = "address" -> {"", "0x123", "0x00000000000000000000000000000000000000a1"}
    [] name = "x500Name" -> {"", "CN=Node1,O=XDC,C=SG"}
    [] name = "certSerialHex" -> {"", "0x1234567890abcdef"}
    [] name = "platformVersion" -> {"", "1"}
    [] name = "host" -> {"", "node1.example.com"}
    [] name = "port" -> {"", "30303"}

\* form.checkValidity(): every control is `required`, the address has
\* pattern="^0x[a-fA-F0-9]{40}$".
checkValidity(formData) ==
  /\ \A name \in FieldNames : formData[name] # ""
  /\ formData.address # "0x123"

\* The error records validateMemberData may return with isValid false, by the
\* fields they name.
ValidationErrors == {{"certSerialHex"}, {"address", "port"}}

\* The ways the awaited onAddMember(data) may end.
Outcomes == {"success", "failure", "undefined", "rejected"}

\* The component just mounted: nothing submitted, nothing awaited.
formMounted ==
  [formData |-> formInitial, validated |-> FALSE, validationErrors |-> {},
   submits |-> 0, calls |-> 0, pending |-> 0,
   step |-> [kind |-> "mount", checkValidity |-> FALSE, isValid |-> FALSE,
             outcome |-> "none"]]

handleChange(name, value) ==
  form' = [form EXCEPT !.formData[name] = value,
                       !.step = [kind |-> "change", checkValidity |-> FALSE,
                                 isValid |-> FALSE, outcome |-> "none"]]

\* Mutant: no return after setValidationErrors(validation.errors).
handleSubmit_noReturnOnInvalid(isValid, errors) ==
  /\ form.submits < MaxSubmits
  /\ LET native == checkValidity(form.formData)
         step == [kind |-> "submit", checkValidity |-> native,
                  isValid |-> native /\ isValid, outcome |-> "none"]
     IN IF ~native
          THEN form' = [form EXCEPT !.validated = TRUE, !.submits = @ + 1,
                                    !.step = step]
          ELSE form' = [form EXCEPT !.validated = TRUE,
                                    !.validationErrors = IF isValid THEN {} ELSE errors,
                                    !.submits = @ + 1, !.calls = @ + 1,
                                    !.pending = @ + 1, !.step = step]

\* handleSubmit up to `await onAddMember(data)`; isValid and errors are what
\* validateMemberData returns.
handleSubmit(isValid, errors) ==
  /\ form.submits < MaxSubmits
  /\ LET native == checkValidity(form.formData)
         step == [kind |-> "submit", checkValidity |-> native,
                  isValid |-> native /\ isValid, outcome |-> "none"]
     IN IF ~native
          THEN form' = [form EXCEPT !.validated = TRUE, !.submits = @ + 1,
                                    !.step = step]
        ELSE IF ~isValid
          THEN form' = [form EXCEPT !.validated = TRUE,
                                    !.validationErrors = errors,
                                    !.submits = @ + 1, !.step = step]
        ELSE form' = [form EXCEPT !.validated = TRUE,
                                  !.validationErrors = {},
                                  !.submits = @ + 1, !.calls = @ + 1,
                                  !.pending = @ + 1, !.step = step]

\* handleSubmit after the await: `if (result && result.success) {...}`; a
\* rejected promise ends the handler there.
handleSubmit_resumed(outcome) ==
  /\ form.pending > 0
  /\ LET step == [kind |-> "resumed", checkValidity |-> TRUE, isValid |-> TRUE,
                  outcome |-> outcome]
     IN IF outcome = "success"
          THEN form' = [form EXCEPT !.formData = formReset, !.validated = FALSE,
                                    !.validationErrors = {},
                                    !.pending = @ - 1, !.step = step]
          ELSE form' = [form EXCEPT !.pending = @ - 1, !.step = step]

\* The contract is not part of the component: nothing of it moves here.
FormOnly ==
  UNCHANGED <<deployed, storage, events, blockTimestamp, eventCount, call, result,
              script, linear, log>>

NextForm ==
  \/ \E name \in FieldNames : \E value \in Typed(name) : handleChange(name, value) /\ FormOnly
  \/ \E isValid \in BOOLEAN, errors \in ValidationErrors : handleSubmit(isValid, errors) /\ FormOnly
  \/ \E outcome \in Outcomes : handleSubmit_resumed(outcome) /\ FormOnly

InitForm ==
  /\ Deployed("Ownable") /\ script = scriptIdle /\ linear = noSecondDeployment
  /\ log = noIndexer /\ form = formMounted
NextOwnable ==
  \/ \E s \in Senders, a \in Addresses, in \in AddInputs : addMember(s, a, in) /\ UNCHANGED aux
  \/ \E s \in Senders, a \in Addresses : removeMember(s, a) /\ UNCHANGED aux
  \/ \E s \in Senders, a \in Addresses, b \in BOOLEAN : updateMemberStatus(s, a, b) /\ UNCHANGED aux
  \/ \E s \in Senders, a \in Addresses, in \in MemberInputs : updateMemberDetails(s, a, in) /\ UNCHANGED aux
  \/ \E s \in Senders, a \in Senders \cup {ZERO} : transferOwnership(s, a) /\ UNCHANGED aux
  \/ \E s \in Senders : renounceOwnership(s) /\ UNCHANGED aux
  \/ NextBlock /\ UNCHANGED aux

NextManager ==
  \/ \E s \in Senders, a \in Addresses, in \in AddInputs : addMember_mgr(s, a, in) /\ UNCHANGED aux
  \/ \E s \in Senders, a \in Addresses : removeMember_mgr(s, a) /\ UNCHANGED aux
  \/ \E s \in Senders, a \in Addresses, b \in BOOLEAN : updateMemberStatus_mgr(s, a, b) /\ UNCHANGED aux
  \/ \E s \in Senders, a \in Addresses, in \in MemberInputs : updateMemberDetails_mgr(s, a, in) /\ UNCHANGED aux
  \/ \E s \in Senders, a \in Addresses, in \in SubnetInputs : updateSubnetMemberDetail(s, a, in) /\ UNCHANGED aux
  \/ \E s \in Senders, a \in Senders \cup {ZERO} : transferManagerRole(s, a) /\ UNCHANGED aux
  \/ NextBlock /\ UNCHANGED aux

Next == NextOwnable \/ NextManager

\* Either version.
Spec == Init /\ [][Next]_vars
\* The Ownable version alone, and the manager version alone.
SpecOwnable == InitOwnable /\ [][NextOwnable]_vars
SpecManager == InitManager /\ [][NextManager]_vars
\* The Ownable version with the calls of its view functions.
SpecOwnableViews == InitOwnable /\ [][NextOwnable \/ ViewsOwnable]_vars
\* The manager version with the calls of its view functions.
SpecManagerViews == InitManager /\ [][NextManager \/ ViewsManager]_vars
\* The Ownable version with the script's command running beside the accounts'
\* own transactions.
SpecScript == InitOwnable /\ [][NextOwnable \/ ScriptSteps]_vars
\* The two implementations side by side, driven by the same calls.
SpecBoth == InitBoth /\ [][NextBoth]_vars
\* The Ownable version with an indexer following its events.
SpecLogged == InitLogged /\ [][NextLogged]_vars
\* The AddMemberForm component alone.
SpecForm == InitForm /\ [][NextForm]_vars

(***************************************************************************)
(* Observations shared by the properties below                             *)
(***************************************************************************)
Range(seq) == {seq[i] : i \in 1 .. Len(seq)}

\* The identity authorized to mutate, and the reasons an unauthorized call reverts with.
Authority == IF deployed = "Ownable" THEN owner ELSE manager
Unauthorized == {OwnableUnauthorizedAccount, OnlyManager}

MutatingFns ==
  {"addMember", "removeMember", "updateMemberStatus", "updateMemberDetails",
   "updateSubnetMemberDetail", "transferOwnership", "renounceOwnership",
   "transferManagerRole"}

\* This step sends a transaction (the one other step, NextBlock, changes block.timestamp).
SendsTransaction == blockTimestamp' = blockTimestamp

\* The transaction of this step reverted without any effect.
NoEffect == UNCHANGED storage /\ events' = <<>> /\ eventCount' = eventCount

(***************************************************************************)
(* C1  Index consistency: in every reachable state getAllMembers() has no  *)
(* duplicates, holds exactly the identities for which isMember is true,    *)
(* and each listed identity's record has memberAddress equal to it.        *)
(* addMember accepts address(0), for which this fails.                     *)
(***************************************************************************)
C1_IndexConsistency ==
  /\ \A i, j \in 1 .. Len(getAllMembers) : i # j => getAllMembers[i] # getAllMembers[j]
  /\ Range(getAllMembers) = {a \in Addresses : isMember(a)}
  /\ \A a \in Range(getAllMembers) : members[a].memberAddress = a

(***************************************************************************)
(* C2  Authority exclusivity: a mutating call whose sender is not the      *)
(* current authority reverts as unauthorized, leaves owner, members,       *)
(* memberIndex and memberAddresses unchanged and emits no event.           *)
(***************************************************************************)
C2_NonAuthorityRejected ==
  [][(SendsTransaction /\ call'.fn \in MutatingFns /\ call'.sender # Authority)
        => (result' \in Unauthorized /\ NoEffect)]_vars

\* test_RevertWhen_NonOwnerRemovesMember: a non-owner's removeMember of a member reverted.
C2_Witness ==
  /\ call.fn = "removeMember" /\ call.sender # Authority
  /\ result = OwnableUnauthorizedAccount
  /\ \E a \in Addresses : isMember(a)

(***************************************************************************)
(* C3  After a successful addMember(X, ...), for every X that addMember    *)
(* accepts: isMember(X), getMember(X) succeeds, and X occurs exactly once  *)
(* in getAllMembers().  Stated on the state the successful call leaves,    *)
(* X being the identity of its MemberAdded event.                          *)
(***************************************************************************)
C3_AddedIsMember ==
  (call.fn = "addMember" /\ result = "ok") =>
    LET X == events[1].memberAddress
    IN /\ isMember(X)
       /\ getMember(X).result = "ok"
       /\ Cardinality({i \in 1 .. Len(getAllMembers) : getAllMembers[i] = X}) = 1

(***************************************************************************)
(* C4  Duplicate add: addMember by the authority on an identity that is    *)
(* already a member reverts with "Member already exists"; the records      *)
(* (fields and timestamps), the list and the index stay as they were and   *)
(* no event is emitted.                                                    *)
(***************************************************************************)
C4_DuplicateAddNoEffect ==
  [][\A a \in Addresses, in \in MemberInputs :
       (isMember(a) /\ addMember(owner, a, in))
          => (result' = MemberAlreadyExists /\ NoEffect)]_vars

\* A second add of a member whose details had been updated reverted: the record
\* still holds the updated details, not those of an add.
C4_Witness ==
  /\ call.fn = "addMember" /\ call.sender = owner
  /\ result = MemberAlreadyExists
  /\ events = <<>>
  /\ \E a \in Addresses : isMember(a) /\ members[a].x500Name = NodeUpdated.x500Name

C6_AddThenGet ==
  [][\A s \in Senders, X \in Addresses, in \in AddInputs :
       (addMember(s, X, in) /\ result' = "ok") =>
         /\ getMember(X)'.result = "ok"
         /\ LET m == getMember(X)'.member
            IN /\ m.memberAddress = X
               /\ m.isActive = TRUE
               /\ m.joinedAt = m.lastUpdated
               /\ m.x500Name = in.x500Name /\ m.publicKey = in.publicKey
               /\ m.serial = in.serial /\ m.platformVersion = in.platformVersion
               /\ m.host = in.host /\ m.port = in.port
    ]_vars

(***************************************************************************)
(* C7  After a successful removeMember(X): isMember(X) is false,           *)
(* getMember(X) reverts with "Member does not exist", X is not in          *)
(* getAllMembers() and memberIndex[X] is cleared.                          *)
(***************************************************************************)
C7_RemovedIsAbsent ==
  \A X \in Addresses :
    (call.fn = "removeMember" /\ result = "ok" /\ events = <<MemberRemoved(X)>>) =>
      /\ ~isMember(X)
      /\ getMember(X).result = MemberDoesNotExist
      /\ X \notin Range(getAllMembers)
      /\ memberIndex[X] = 0

\* The member in the last slot (slot 1 of two) was removed.
C7_Witness ==
  /\ call.fn = "removeMember" /\ result = "ok"
  /\ events = <<MemberRemoved(2)>>
  /\ memberAddresses = <<1>>
  /\ ~isMember(2)
  /\ eventCount = 3

(***************************************************************************)
(* C8  Authority transfer: once the authority P1 has transferred to P2,    *)
(* the authority is P2 and stays P2 until P2 transfers; at any time a      *)
(* mutating call from a sender who is not the authority reverts as         *)
(* unauthorized, and the same call from the authority succeeds when its    *)
(* existence precondition holds.                                           *)
(***************************************************************************)
\* The functions of the manager version that are restricted to the manager.
ManagerFns ==
  {"addMember", "removeMember", "updateMemberStatus", "updateMemberDetails",
   "updateSubnetMemberDetail", "transferManagerRole"}

\* This step is a call by the manager whose existence precondition holds:
\* an add of a non-member, a remove or update of a member, a transfer to a
\* non-zero address.
ManagerCallWithPrecondition ==
  LET fn == call'.fn
      Members == {a \in Addresses : isMember_mgr(a)}
  IN \/ /\ fn = "addMember"
        /\ \E a \in Addresses \ Members, in \in AddInputs : addMember_mgr(manager, a, in)
     \/ /\ fn = "removeMember"
        /\ \E a \in Members : removeMember_mgr(manager, a)
     \/ /\ fn = "updateMemberStatus"
        /\ \E a \in Members, b \in BOOLEAN : updateMemberStatus_mgr(manager, a, b)
     \/ /\ fn = "updateMemberDetails"
        /\ \E a \in Members, in \in MemberInputs : updateMemberDetails_mgr(manager, a, in)
     \/ /\ fn = "updateSubnetMemberDetail"
        /\ \E a \in Members, in \in SubnetInputs : updateSubnetMemberDetail(manager, a, in)
     \/ /\ fn = "transferManagerRole"
        /\ \E a \in Addresses \ {ZERO} : transferManagerRole(manager, a)

C8_AuthorityTransfer ==
  [][/\ (manager' # manager) =>
          /\ call'.fn = "transferManagerRole" /\ call'.sender = manager /\ result' = "ok"
          /\ transferManagerRole(manager, manager')
     /\ (SendsTransaction /\ call'.fn \in ManagerFns /\ call'.sender # manager) =>
          result' = OnlyManager
     /\ (call'.sender = manager) =>
          (result' = "ok" \/ ~ManagerCallWithPrecondition)
    ]_vars

\* After the deployer handed the role to account 2, an addMember of the deployer
\* reverted; a member that joined in the second block is there.
C8_Witness ==
  /\ manager = 2 /\ Deployer # 2
  /\ call = [fn |-> "addMember", sender |-> Deployer]
  /\ result = OnlyManager
  /\ \E a \in Addresses : isMember_mgr(a) /\ members[a].joinedAt = 2
  /\ eventCount = 2

(***************************************************************************)
(* C9  Exactly one event per successful mutation, none on failure: a       *)
(* successful addMember emits MemberAdded(identity, dn) with the supplied  *)
(* identity and dn, a successful removeMember MemberRemoved(identity), a   *)
(* successful updateMemberStatus or updateMemberDetails                    *)
(* MemberUpdated(identity), each exactly once; a call that reverts emits   *)
(* nothing.                                                                *)
(***************************************************************************)
EmitsOnly(e) ==
  IF result' = "ok" THEN events' = <<e>> /\ eventCount' = eventCount + 1
  ELSE events' = <<>> /\ eventCount' = eventCount

C9_OneEventPerMutation ==
  [][SendsTransaction =>
       IF result' # "ok" THEN events' = <<>> /\ eventCount' = eventCount
       ELSE \A a \in Addresses :
              LET s  == call'.sender
                  fn == call'.fn
              IN /\ fn = "addMember" =>
                      \A in \in AddInputs : addMember(s, a, in) =>
                         EmitsOnly([name |-> "MemberAdded", memberAddress |-> a,
                                    x500Name |-> in.x500Name])
                 /\ fn = "removeMember" =>
                      (removeMember(s, a) =>
                         EmitsOnly([name |-> "MemberRemoved", memberAddress |-> a]))
                 /\ fn = "updateMemberStatus" =>
                      \A b \in BOOLEAN : updateMemberStatus(s, a, b) =>
                         EmitsOnly([name |-> "MemberUpdated", memberAddress |-> a])
                 /\ fn = "updateMemberDetails" =>
                      \A in \in MemberInputs : updateMemberDetails(s, a, in) =>
                         EmitsOnly([name |-> "MemberUpdated", memberAddress |-> a])
    ]_vars

\* A status update of a member, the second event since deployment.
C9_Witness ==
  /\ call.fn = "updateMemberStatus" /\ result = "ok"
  /\ events = <<[name |-> "MemberUpdated", memberAddress |-> 1]>>
  /\ eventCount = 2
  /\ isMember(1) /\ ~members[1].isActive

\* This step is a removeMember, updateMemberStatus, updateMemberDetails or
\* updateSubnetMemberDetail of the manager on an identity that is no member.
ManagerCallOnAbsentIdentity ==
  LET fn == call'.fn
      Absent == {a \in Addresses : ~isMember_mgr(a)}
  IN /\ call'.sender = manager
     /\ \/ /\ fn = "removeMember"
           /\ \E a \in Absent : removeMember_mgr(manager, a)
        \/ /\ fn = "updateMemberStatus"
           /\ \E a \in Absent, b \in BOOLEAN : updateMemberStatus_mgr(manager, a, b)
        \/ /\ fn = "updateMemberDetails"
           /\ \E a \in Absent, in \in MemberInputs : updateMemberDetails_mgr(manager, a, in)
        \/ /\ fn = "updateSubnetMemberDetail"
           /\ \E a \in Absent, in \in SubnetInputs : updateSubnetMemberDetail(manager, a, in)

(***************************************************************************)
(* C10  removeMember, updateMemberStatus, updateMemberDetails and          *)
(* updateSubnetMemberDetail called by the authority on an identity that is *)
(* no member revert with "Member does not exist" and leave members,        *)
(* memberAddresses, memberCount, the authority and the event log as they   *)
(* were.                                                                   *)
(***************************************************************************)
C10_AbsentIdentityNotFound ==
  [][(result' = MemberDoesNotExist /\ NoEffect) \/ ~ManagerCallOnAbsentIdentity]_vars

\* The manager's updateSubnetMemberDetail reverted while another identity is a member.
C10_Witness ==
  /\ call = [fn |-> "updateSubnetMemberDetail", sender |-> manager]
  /\ result = MemberDoesNotExist
  /\ events = <<>>
  /\ \E a \in Addresses : isMember_mgr(a)

(***************************************************************************)
(* C11  A transferManagerRole of the manager to address(0) reverts with    *)
(* "Invalid manager address" and leaves the manager and the registry as    *)
(* they were; to any other address it makes that address the manager,      *)
(* leaves the registry as it was and emits exactly one                     *)
(* ManagerChanged(old manager, new manager).                               *)
(***************************************************************************)
C11_TransferToNull ==
  [][(call'.fn = "transferManagerRole" /\ call'.sender = manager) =>
       \A a \in Addresses :
          transferManagerRole(manager, a) =>
            IF a = ZERO
              THEN result' = InvalidManagerAddress /\ NoEffect
              ELSE /\ result' = "ok"
                   /\ manager' = a
                   /\ events' = <<[name |-> "ManagerChanged", oldManager |-> manager,
                                   newManager |-> a]>>
                   /\ eventCount' = eventCount + 1
                   /\ UNCHANGED <<members, memberAddresses, memberCount>>
    ]_vars

\* Account 2, manager by a transfer, tried to hand the role to address(0); a
\* member is registered.
C11_Witness ==
  /\ manager = 2 /\ Deployer # 2
  /\ call = [fn |-> "transferManagerRole", sender |-> 2]
  /\ result = InvalidManagerAddress
  /\ events = <<>>
  /\ \E a \in Addresses : isMember_mgr(a)

(***************************************************************************)
(* C12  In every reachable state exactly one identity is authorized to     *)
(* mutate: the access check passes for a caller exactly if the caller is   *)
(* the current authority, and the authority is never address(0).  The      *)
(* Ownable version inherits renounceOwnership, which sets the owner to     *)
(* address(0): no account is authorized from then on.                      *)
(***************************************************************************)
Authorized(caller) ==
  IF deployed = "Ownable" THEN onlyOwner(caller) ELSE onlyManager(caller)

C12_SingleAuthority ==
  /\ Authority # ZERO
  /\ \A caller \in Addresses : Authorized(caller) <=> caller = Authority
  /\ Cardinality({caller \in Senders : Authorized(caller)}) = 1

(***************************************************************************)
(* C13  updateMemberDetails(X, dn, key, serial, platformVersion, host,     *)
(* port) of the owner on a member X succeeds and sets exactly those six    *)
(* fields and lastUpdated; X's memberAddress, joinedAt and isActive, the   *)
(* list, the reverse index and every other record stay as they were.       *)
(***************************************************************************)
C13_UpdateDetailsFrame ==
  [][(call'.fn = "updateMemberDetails" /\ call'.sender = owner) =>
       \A X \in {a \in Addresses : isMember(a)}, in \in MemberInputs :
          updateMemberDetails(owner, X, in) =>
            /\ result' = "ok"
            /\ members'[X].x500Name = in.x500Name
            /\ members'[X].publicKey = in.publicKey
            /\ members'[X].serial = in.serial
            /\ members'[X].platformVersion = in.platformVersion
            /\ members'[X].host = in.host
            /\ members'[X].port = in.port
            /\ members'[X].lastUpdated = blockTimestamp
            /\ members'[X].memberAddress = members[X].memberAddress
            /\ members'[X].joinedAt = members[X].joinedAt
            /\ members'[X].isActive = members[X].isActive
            /\ \A Y \in Addresses \ {X} : members'[Y] = members[Y]
            /\ UNCHANGED <<memberAddresses, memberIndex, owner>>
    ]_vars

\* test_UpdateMemberDetails on a member that joined in the first block and was
\* set inactive: the details are the new ones, written in the second block.
C13_Witness ==
  /\ call.fn = "updateMemberDetails" /\ result = "ok"
  /\ events = <<MemberUpdated(1)>>
  /\ memberAddresses = <<1>>
  /\ members[1].x500Name = NodeUpdated.x500Name /\ members[1].port = NodeUpdated.port
  /\ ~members[1].isActive
  /\ members[1].joinedAt = 1 /\ members[1].lastUpdated = 2

(***************************************************************************)
(* C14  updateSubnetMemberDetail(X, serial, platformVersion, host, port)   *)
(* of the manager on a member X succeeds, overwrites serial,               *)
(* platformVersion, host and port and sets lastUpdated; X's x500Name,      *)
(* publicKey, isActive, joinedAt and nodeAddress are what they were.       *)
(***************************************************************************)
C14_SubnetDetailFrame ==
  [][(call'.fn = "updateSubnetMemberDetail" /\ call'.sender = manager) =>
       \A X \in {a \in Addresses : isMember_mgr(a)}, in \in SubnetInputs :
          updateSubnetMemberDetail(manager, X, in) =>
            /\ result' = "ok"
            /\ members'[X].serial = in.serial
            /\ members'[X].platformVersion = in.platformVersion
            /\ members'[X].host = in.host
            /\ members'[X].port = in.port
            /\ members'[X].lastUpdated = blockTimestamp
            /\ members'[X].x500Name = members[X].x500Name
            /\ members'[X].publicKey = members[X].publicKey
            /\ members'[X].isActive = members[X].isActive
            /\ members'[X].joinedAt = members[X].joinedAt
            /\ members'[X].nodeAddress = members[X].nodeAddress
    ]_vars

\* A member added as Node1 in the first block and set inactive got the subnet
\* details of NodeUpdated in the second block: name and key are still Node1's.
C14_Witness ==
  /\ call.fn = "updateSubnetMemberDetail" /\ result = "ok"
  /\ isMember_mgr(1)
  /\ members[1].host = NodeUpdated.host /\ members[1].serial = NodeUpdated.serial
  /\ members[1].x500Name = Node1.x500Name /\ members[1].publicKey = Node1.publicKey
  /\ ~members[1].isActive
  /\ members[1].joinedAt = 1 /\ members[1].lastUpdated = 2

(***************************************************************************)
(* C15  updateMemberStatus(X, v) of the owner on a member X succeeds and   *)
(* emits MemberUpdated(X), also when v is the status X already has; it     *)
(* sets isActive to v and lastUpdated to the block time and changes no     *)
(* other field of X, no other record, neither the list nor the reverse     *)
(* index.                                                                  *)
(***************************************************************************)
C15_UpdateStatusFrame ==
  [][(call'.fn = "updateMemberStatus" /\ call'.sender = owner) =>
       \A X \in {a \in Addresses : isMember(a)}, v \in BOOLEAN :
          updateMemberStatus(owner, X, v) =>
            /\ result' = "ok"
            /\ events' = <<[name |-> "MemberUpdated", memberAddress |-> X]>>
            /\ members'[X] = [members[X] EXCEPT !.isActive = v,
                                                !.lastUpdated = blockTimestamp]
            /\ \A Y \in Addresses \ {X} : members'[Y] = members[Y]
            /\ UNCHANGED <<memberAddresses, memberIndex, owner>>
    ]_vars

\* The one status update since the add, made in the second block, asked for
\* the status the member already had (active).
C15_Witness ==
  /\ call.fn = "updateMemberStatus" /\ result = "ok"
  /\ events = <<MemberUpdated(1)>> /\ eventCount = 2
  /\ memberAddresses = <<1>>
  /\ members[1].isActive
  /\ members[1].joinedAt = 1 /\ members[1].lastUpdated = 2

(***************************************************************************)
(* C16  As stated: in add(N1) then updateStatus(N1, false) the record's    *)
(* lastUpdated after the status update is strictly greater than before,    *)
(* whatever times the chain gives the two calls.  Both calls can be mined  *)
(* in one block and then have the same block.timestamp.                    *)
(***************************************************************************)
StatusUpdatedOf(X) ==
  /\ SendsTransaction
  /\ call'.fn = "updateMemberStatus" /\ result' = "ok"
  /\ events' = <<MemberUpdated(X)>>

C16_StrictlyGreater ==
  [][\A X \in Addresses :
       StatusUpdatedOf(X) => members'[X].lastUpdated > members[X].lastUpdated]_vars

(***************************************************************************)
(* C16, amended: after a status update lastUpdated is the block time of    *)
(* the update; it is never smaller than before, and it is strictly greater *)
(* exactly when the update is mined in a later block than the record's     *)
(* previous write.                                                         *)
(***************************************************************************)
C16_NotEarlier ==
  [][\A X \in Addresses :
       StatusUpdatedOf(X) =>
         /\ members'[X].lastUpdated = blockTimestamp
         /\ members'[X].lastUpdated >= members[X].lastUpdated
         /\ (members'[X].lastUpdated > members[X].lastUpdated)
              <=> (blockTimestamp > members[X].lastUpdated)
    ]_vars

\* add(N1) and updateStatus(N1, false) in the first block: lastUpdated is still
\* the time of the add.
C16_Witness ==
  /\ call.fn = "updateMemberStatus" /\ result = "ok"
  /\ events = <<MemberUpdated(1)>> /\ eventCount = 2
  /\ ~members[1].isActive
  /\ blockTimestamp = 1
  /\ members[1].joinedAt = 1 /\ members[1].lastUpdated = 1

(***************************************************************************)
(* C17  getMember, getAllMembers and isMember succeed for any caller,      *)
(* owner or not (getMember only for a member, otherwise it reverts with    *)
(* "Member does not exist"), and never change members, memberAddresses,    *)
(* memberIndex, the owner or the event log.                                *)
(***************************************************************************)
ViewFns == {"getMember", "getAllMembers", "isMember"}

C17_ViewsReadOnly ==
  [][(SendsTransaction /\ call'.fn \in ViewFns) =>
       /\ UNCHANGED storage
       /\ events' = <<>> /\ eventCount' = eventCount
       /\ call'.fn # "getMember" => result' = "ok"
       /\ call'.fn = "getMember" =>
            \A a \in Addresses :
               callGetMember(call'.sender, a) =>
                  result' = IF isMember(a) THEN "ok" ELSE MemberDoesNotExist
    ]_vars

\* An account that is not the owner read a member's record.
C17_Witness ==
  /\ call.fn = "getMember" /\ call.sender # owner /\ owner # ZERO
  /\ result = "ok"
  /\ \E a \in Addresses : isMember(a) /\ getMember(a).member = members[a]

C19_InitialState ==
  call.fn = "constructor" =>
    /\ owner = call.sender /\ owner = Deployer
    /\ getAllMembers = <<>>
    /\ \A x \in Addresses : ~isMember(x)

\* The deployment itself, in the block of the constructor.
C19_Witness ==
  /\ call = [fn |-> "constructor", sender |-> Deployer]
  /\ blockTimestamp = 1 /\ eventCount = 0 /\ result = "ok"
  /\ Len(getAllMembers) = 0

(***************************************************************************)
(* C20  Reverse-index invariant: in every reachable state, for every       *)
(* member X, memberIndex[X] is less than the list length and               *)
(* memberAddresses[memberIndex[X]] is X; and every list slot holds a       *)
(* member.  After addMember(address(0), ...) a slot holds address(0),      *)
(* which is no member.  (Slots are counted from 0 in the contract and from *)
(* 1 here.)                                                                *)
(***************************************************************************)
C20_ReverseIndex ==
  /\ \A X \in Addresses :
        isMember(X) =>
          /\ memberIndex[X] < Len(memberAddresses)
          /\ memberAddresses[memberIndex[X] + 1] = X
  /\ \A i \in 1 .. Len(memberAddresses) : isMember(memberAddresses[i])

\* C21: when the owner removes the member that sits in the last occupied slot
\* (the only member included), the list just loses that slot, no other
\* identity's reverse-index entry changes, and the removed identity has no
\* reverse-index entry afterwards, although removeMember wrote
\* memberIndex[lastMember] (the same identity) before deleting it.
C21_RemoveLast ==
  [][(call'.fn = "removeMember" /\ call'.sender = owner) =>
       \A X \in {a \in Addresses : isMember(a)} :
          ( /\ Len(memberAddresses) > 0
            /\ memberAddresses[Len(memberAddresses)] = X
            /\ removeMember(owner, X) ) =>
               /\ result' = "ok"
               /\ memberAddresses' = SubSeq(memberAddresses, 1, Len(memberAddresses) - 1)
               /\ memberIndex'[X] = 0
               /\ \A Y \in Addresses \ {X} : memberIndex'[Y] = memberIndex[Y]
    ]_vars

\* The only member (added by the first event) has just been removed.
C21_Witness ==
  /\ deployed = "Ownable"
  /\ call = [fn |-> "removeMember", sender |-> owner]
  /\ events = <<MemberRemoved(Deployer)>>
  /\ eventCount = 2
  /\ memberAddresses = <<>>
  /\ memberIndex[Deployer] = 0
  /\ ~isMember(Deployer)

\* A call by the sender of the step that the existence guard alone would
\* reject: addMember of a present identity, or removeMember,
\* updateMemberStatus or updateMemberDetails of an absent one.
CallExistenceGuardRejects ==
  \E a \in Addresses :
     IF isMember(a)
     THEN /\ call'.fn = "addMember"
          /\ \E in \in AddInputs : addMember(call'.sender, a, in)
     ELSE \/ call'.fn = "removeMember" /\ removeMember(call'.sender, a)
          \/ /\ call'.fn = "updateMemberStatus"
             /\ \E b \in BOOLEAN : updateMemberStatus(call'.sender, a, b)
          \/ /\ call'.fn = "updateMemberDetails"
             /\ \E in \in MemberInputs : updateMemberDetails(call'.sender, a, in)

\* C22: authorization is checked before existence: a caller that is not the
\* owner gets OwnableUnauthorizedAccount, never MemberAlreadyExists, from
\* addMember of a present identity, and never MemberDoesNotExist from
\* removeMember, updateMemberStatus or updateMemberDetails of an absent one.
C22_CheckOrder ==
  [][(SendsTransaction /\ call'.sender # owner) =>
        (result' = OwnableUnauthorizedAccount \/ ~CallExistenceGuardRejects)]_vars

\* A non-owner's removeMember reverted as unauthorized while the registry holds
\* no record at all, so the identity it named was absent.
C22_Witness ==
  /\ deployed = "Ownable"
  /\ call.fn = "removeMember" /\ call.sender # owner
  /\ result = OwnableUnauthorizedAccount
  /\ \A a \in Addresses : ~isMember(a)

\* C23: while a record exists its joinedAt and memberAddress do not change,
\* whatever transaction is sent (updateMemberStatus, updateMemberDetails, which
\* is also what the script's updateSubnetMemberDetail sends, ownership
\* transfers): a record disappears only by a successful removeMember and
\* appears only by a successful addMember, which is the one way to a new
\* joinedAt.
C23_JoinedAtImmutable ==
  [][(members' # members) => \A X \in Addresses :
        /\ (isMember(X) /\ members'[X].memberAddress # ZERO) =>
              /\ members'[X].joinedAt = members[X].joinedAt
              /\ members'[X].memberAddress = members[X].memberAddress
        /\ (isMember(X) /\ members'[X].memberAddress = ZERO) =>
              (call'.fn = "removeMember" /\ result' = "ok")
        /\ (~isMember(X) /\ members'[X].memberAddress # ZERO) =>
              (call'.fn = "addMember" /\ result' = "ok"
                 /\ members'[X].joinedAt = blockTimestamp)
    ]_vars

\* Ownership went to the second account in block 2, after the status of the
\* member that joined in block 1 had been updated: joinedAt is still 1.
C23_Witness ==
  /\ deployed = "Ownable"
  /\ call.fn = "transferOwnership" /\ result = "ok" /\ owner = 2
  /\ blockTimestamp = 2
  /\ isMember(1) /\ members[1].joinedAt = 1 /\ members[1].lastUpdated = 2

\* C24: a successful addMember puts its identity in the slot after the last
\* one and leaves every earlier slot as it was, and nothing but a successful
\* addMember or removeMember changes the list; so, as long as no removal has
\* happened, getAllMembers() lists the identities in the order in which they
\* were added and its length is the number of successful adds.
C24_AppendOrder ==
  [][ /\ (SendsTransaction /\ call'.fn = "addMember" /\ result' = "ok") =>
            /\ Len(memberAddresses') = Len(memberAddresses) + 1
            /\ SubSeq(memberAddresses', 1, Len(memberAddresses)) = memberAddresses
            /\ events'[1].name = "MemberAdded"
            /\ memberAddresses'[Len(memberAddresses')] = events'[1].memberAddress
      /\ (memberAddresses' # memberAddresses) =>
            (result' = "ok" /\ call'.fn \in {"addMember", "removeMember"})
    ]_vars

\* Two events so far, both successful adds: account 2 first, account 1 second.
C24_Witness ==
  /\ deployed = "Ownable"
  /\ call.fn = "addMember" /\ result = "ok"
  /\ eventCount = 2
  /\ events = <<MemberAdded(1, Node1.x500Name)>>
  /\ getAllMembers = <<2, 1>>

\* C25: the active flag does not decide existence.  An updateMemberStatus of
\* the owner on a present X, to false or to true, leaves isMember(X) true,
\* getMember(X) succeeding with the flag just written, and getAllMembers()
\* as it was, X in its slot; a present identity becomes absent only by a
\* successful removeMember of it.
C25_StatusKeepsExistence ==
  [][ /\ (call'.fn = "updateMemberStatus" /\ call'.sender = owner) =>
         \A X \in {a \in Addresses : isMember(a)}, v \in BOOLEAN :
            updateMemberStatus(owner, X, v) =>
               /\ result' = "ok"
               /\ isMember(X)'
               /\ getMember(X)'.result = "ok"
               /\ getMember(X)'.member.isActive = v
               /\ getAllMembers' = getAllMembers
               /\ memberIndex'[X] = memberIndex[X]
      /\ (members' # members) =>
            \A X \in Addresses :
               (isMember(X) /\ ~isMember(X)') =>
                  /\ call'.fn = "removeMember" /\ result' = "ok"
                  /\ events' = <<MemberRemoved(X)>>
    ]_vars

\* Account 2 was added, then its status was updated twice, last to false: it
\* is inactive, still a member, still the list's only entry, still readable.
C25_Witness ==
  /\ deployed = "Ownable"
  /\ call.fn = "updateMemberStatus" /\ result = "ok"
  /\ eventCount = 3
  /\ ~members[2].isActive
  /\ isMember(2)
  /\ getAllMembers = <<2>>
  /\ getMember(2).result = "ok"

\* C26: the manager changes only by a successful transferManagerRole sent by
\* the manager of the moment, which emits ManagerChanged(old, new); every
\* other call, query or mutation, successful or reverted, leaves it as it is;
\* and a transferManagerRole, successful or not, leaves the records, the list
\* and the count unchanged (the manager version keeps no reverse index).
C26_AuthorityFrame ==
  [][ /\ (manager' # manager) =>
            /\ call'.fn = "transferManagerRole"
            /\ call'.sender = manager
            /\ result' = "ok"
            /\ events' = <<ManagerChanged(manager, manager')>>
      /\ (call'.fn # "transferManagerRole") => manager' = manager
      /\ (call'.fn = "transferManagerRole") =>
            UNCHANGED <<members, memberAddresses, memberCount, memberIndex>>
    ]_vars

\* The deployer handed the role to account 2 while account 1 is a member.
C26_Witness ==
  /\ deployed = "Manager"
  /\ call = [fn |-> "transferManagerRole", sender |-> Deployer]
  /\ result = "ok"
  /\ manager = 2
  /\ events = <<ManagerChanged(Deployer, 2)>>
  /\ getAllMembers_mgr = <<1>> /\ isMember_mgr(1)

\* C27: the script's updateSubnetMemberDetail leaves the name and the key of
\* its identity as they were just before its write, whatever was ordered
\* between its read and its write.
C27_ScriptKeepsNameAndKey ==
  [][(script.pc = "read" /\ script'.pc = "idle" /\ result' = "ok") =>
        /\ members'[script.subnetAddress].x500Name = members[script.subnetAddress].x500Name
        /\ members'[script.subnetAddress].publicKey = members[script.subnetAddress].publicKey
    ]_vars

\* C28: every identity that getAllMembers() returns can be removed by the
\* owner: removeMember of a listed identity, sent by the owner, succeeds.
C28_ListedRemovable ==
  [][(call'.fn = "removeMember" /\ call'.sender = owner) =>
        \A X \in Range(getAllMembers) :
           removeMember(owner, X) => result' = "ok"
    ]_vars

\* C30: in the manager version memberCount equals the length of
\* memberAddresses, and both equal the number of identities for which isMember
\* is true.
C30_CountMatches ==
  /\ memberCount = Len(memberAddresses)
  /\ memberCount = Cardinality({a \in Addresses : isMember_mgr(a)})

\* A record of the manager version read as one of the Ownable version: the
\* field nodeAddress is called memberAddress there.
AsNodeMember(m) ==
  [x500Name |-> m.x500Name, memberAddress |-> m.nodeAddress,
   publicKey |-> m.publicKey, isActive |-> m.isActive,
   joinedAt |-> m.joinedAt, lastUpdated |-> m.lastUpdated,
   serial |-> m.serial, platformVersion |-> m.platformVersion,
   host |-> m.host, port |-> m.port]

\* C29: the reverse-index implementation and the linear-scan implementation,
\* sent the same addMember, removeMember, updateMemberStatus and
\* updateMemberDetails calls by the same callers, agree after every call on
\* getAllMembers(), on isMember and getMember of every identity, and on
\* whether the call succeeded.
C29_SameObservations ==
  /\ getAllMembers = linear.memberAddresses
  /\ \A a \in Addresses :
        /\ isMember(a) <=> (linear.members[a].nodeAddress # ZERO)
        /\ isMember(a) => getMember(a).member = AsNodeMember(linear.members[a])
  /\ (result = "ok") <=> (linear.result = "ok")

\* Both deployments hold account 2 alone after two adds and the removal of the
\* identity in the first slot, which moved the last member there.
C29_Witness ==
  /\ call.fn = "removeMember" /\ result = "ok" /\ linear.result = "ok"
  /\ eventCount = 3
  /\ getAllMembers = <<2>>
  /\ linear.memberAddresses = <<2>> /\ linear.memberCount = 1
  /\ isMember(2) /\ members[2].joinedAt = 1 /\ blockTimestamp = 2

\* C33: block.timestamp never decreasing from one block to the next, every
\* present record has lastUpdated >= joinedAt.
C33_UpdatedNotBeforeJoined ==
  \A X \in Addresses :
     isMember(X) => members[X].lastUpdated >= members[X].joinedAt

\* Account 1 joined in block 1 and was updated in block 2, where account 2
\* joined: one record with lastUpdated above joinedAt, one with both equal.
C33_Witness ==
  /\ deployed = "Ownable"
  /\ isMember(1) /\ members[1].joinedAt = 1 /\ members[1].lastUpdated = 2
  /\ isMember(2) /\ members[2].joinedAt = 2 /\ members[2].lastUpdated = 2

\* The four functions that write records.
RecordFns == {"addMember", "removeMember", "updateMemberStatus", "updateMemberDetails"}

\* C32: a successful addMember, removeMember, updateMemberStatus or
\* updateMemberDetails on X leaves the record of every other identity, and so
\* its presence, exactly as it was.  addMember and the updates also leave every
\* other identity's slot and reverse-index entry alone; removeMember changes
\* at most one slot, which then holds the former last identity, and the
\* reverse-index entry of no identity other than X and that former last one.
C32_RecordIsolation ==
  [][(/\ members' # members \/ memberAddresses' # memberAddresses
            \/ memberIndex' # memberIndex
      /\ call'.fn \in RecordFns /\ result' = "ok") =>
        LET X == events'[1].memberAddress
            n == Len(memberAddresses)
        IN /\ \A Y \in Addresses \ {X} : members'[Y] = members[Y]
           /\ IF call'.fn = "removeMember"
                THEN /\ Len(memberAddresses') = n - 1
                     /\ \A Y \in Addresses \ {X, memberAddresses[n]} :
                           memberIndex'[Y] = memberIndex[Y]
                     /\ \A i \in 1 .. (n - 1) :
                           memberAddresses'[i] # memberAddresses[i] =>
                              /\ memberAddresses'[i] = memberAddresses[n]
                              /\ memberAddresses[i] = X
                ELSE /\ SubSeq(memberAddresses', 1, n) = memberAddresses
                     /\ \A Y \in Addresses \ {X} : memberIndex'[Y] = memberIndex[Y]
    ]_vars

\* Account 2 was removed from the first slot of <<2, 1>>: account 1, the former
\* last, took the slot, and its record is the one written when it joined.
C32_Witness ==
  /\ deployed = "Ownable"
  /\ call.fn = "removeMember" /\ result = "ok"
  /\ events = <<MemberRemoved(2)>>
  /\ getAllMembers = <<1>> /\ memberIndex[1] = 0
  /\ members[1] = [newMember(1, Node1) EXCEPT !.joinedAt = 2, !.lastUpdated = 2]
  /\ ~isMember(2) /\ members[2] = NodeMemberZero
  /\ blockTimestamp = 2

\* C34: in the manager version, whenever removeMember is sent, the scan finds
\* every identity that passes the memberExists guard; and a removeMember that
\* does not revert has deleted the record of an identity that was present,
\* shortened the list by one, decremented memberCount and emitted
\* MemberRemoved for that identity: it never returns without effect.
C34_ScanFinds ==
  [][(call'.fn = "removeMember" /\ SendsTransaction) =>
        /\ \A a \in Addresses :
              memberExists_mgr(a) => scan(memberAddresses, a, 0).found
        /\ (result' = "ok") =>
              /\ Len(events') = 1
              /\ events'[1].name = "MemberRemoved"
              /\ memberExists_mgr(events'[1].memberAddress)
              /\ members'[events'[1].memberAddress] = NodeMemberZero_mgr
              /\ Len(memberAddresses') = Len(memberAddresses) - 1
              /\ memberCount' = memberCount - 1
    ]_vars

\* The manager removed account 1 from <<1, 2>>: one entry and a count of one
\* are left.
C34_Witness ==
  /\ deployed = "Manager"
  /\ call = [fn |-> "removeMember", sender |-> manager]
  /\ result = "ok"
  /\ events = <<MemberRemoved(1)>>
  /\ getAllMembers_mgr = <<2>> /\ memberCount = 1
  /\ ~isMember_mgr(1) /\ isMember_mgr(2)

\* The identities whose latest MemberAdded / MemberRemoved event is MemberAdded.
LoggedAsAdded == {a \in Addresses : log[a] = "MemberAdded"}

\* C31: the event log determines membership.  In every reachable state the
\* identities whose latest membership event is MemberAdded are the identities
\* getAllMembers() returns; and a transaction emits MemberUpdated or
\* MemberRemoved for X only when X's latest membership event so far is
\* MemberAdded.
C31_LogDeterminesMembership ==
  [][ /\ LoggedAsAdded = Range(getAllMembers)
      /\ LoggedAsAdded' = Range(getAllMembers')
      /\ (SendsTransaction /\ events' # <<>>
            /\ events'[1].name \in {"MemberUpdated", "MemberRemoved"}) =>
               log[events'[1].memberAddress] = "MemberAdded"
    ]_vars

\* Accounts 1 and 2 were added and account 1 removed: the log says removed
\* for 1 and added for 2, and the list holds 2 alone.
C31_Witness ==
  /\ log[1] = "MemberRemoved" /\ log[2] = "MemberAdded" /\ log[ZERO] = "none"
  /\ getAllMembers = <<2>>
  /\ events = <<MemberRemoved(1)>>

\* This step is a submit that passed form.checkValidity() and
\* validateMemberData, and so reached onAddMember.
SubmitPassed ==
  form'.step.kind = "submit" /\ form'.step.checkValidity /\ form'.step.isValid

\* This step is a submit that one of the two checks stopped.
SubmitStopped ==
  form'.step.kind = "submit" /\ ~(form'.step.checkValidity /\ form'.step.isValid)

\* This step is the handler resuming with a result whose success is true / with
\* anything else.
ResumedWithSuccess == form'.step.kind = "resumed" /\ form'.step.outcome = "success"
ResumedWithoutSuccess == form'.step.kind = "resumed" /\ form'.step.outcome # "success"

\* onAddMember is invoked at most once per submit and only by a submit that
\* passed both checks.
InvokedOnceWhenValid ==
  /\ form'.calls \in {form.calls, form.calls + 1}
  /\ form'.calls <= form'.submits
  /\ (form'.calls # form.calls) => SubmitPassed

\* A stopped submit and a result without success keep the entered values; the
\* handler changes them only by the reset after a result with success.
FieldsKeptUnlessSuccess ==
  /\ (SubmitStopped \/ ResumedWithoutSuccess) => form'.formData = form.formData
  /\ (form'.formData # form.formData /\ form'.step.kind # "change") =>
        (ResumedWithSuccess /\ form'.formData = formReset)

\* C35 as stated: onAddMember is invoked at most once per submit and only when
\* both checks pass; failed validation or a result without success keeps the
\* entered values; only a result with success resets the fields and clears
\* the validation errors.
C35_SubmitFlow ==
  [][ (form'.step # form.step \/ form' # form) =>
        /\ InvokedOnceWhenValid
        /\ FieldsKeptUnlessSuccess
        /\ (form.validationErrors # {} /\ form'.validationErrors = {}) =>
              ResumedWithSuccess
    ]_vars

\* C35 amended: as above, but validation errors are cleared already by the
\* submit that passes validateMemberData, before onAddMember is invoked, and
\* once more after a result with success; nothing else clears them.
C35_SubmitFlowAmended ==
  [][ (form'.step # form.step \/ form' # form) =>
        /\ InvokedOnceWhenValid
        /\ FieldsKeptUnlessSuccess
        /\ (form.validationErrors # {} /\ form'.validationErrors = {}) =>
              (ResumedWithSuccess \/ SubmitPassed)
        /\ SubmitPassed => form'.validationErrors = {}
        /\ ResumedWithSuccess =>
              (form'.validationErrors = {} /\ form'.formData = formReset)
    ]_vars

\* Two submits of the same valid-looking entries: validateMemberData stopped
\* the first, the second reached onAddMember, whose result was not a success.
\* The entries are kept and the errors of the first submit are gone.
C35_Witness ==
  /\ form # noForm
  /\ form.step.kind = "resumed" /\ form.step.outcome = "failure"
  /\ form.submits = 2 /\ form.calls = 1 /\ form.pending = 0
  /\ checkValidity(form.formData)
  /\ form.validated
  /\ form.validationErrors = {}
====
